---- MODULE Spec2Model ----
(***************************************************************************)
(* Filtering-and-rendering pipeline of the ski-touring site.               *)
(*                                                                         *)
(* Two pages are modelled by one state machine, selected by `variant`:     *)
(*   "leaflet"  docs/js/main.js         (src/unnamed/part_000)             *)
(*   "mapbox"   docs/js/main_mapbox.js  (src/unnamed/part_001)             *)
(*                                                                         *)
(* JavaScript strings are sequences of one-character strings; a JavaScript *)
(* value is a tagged record (undefined, null or a string).                 *)
(***************************************************************************)
EXTENDS Integers, Sequences, FiniteSets, Bags, TLC

VARIABLES
    variant,      \* which page script runs
    els,          \* ids of the elements the page markup holds
    pc,           \* lifecycle: "start", "wired", "fetching", "loaded", "failed"
    mapReady,     \* the module-level `map` has been assigned by initMap
    allFeatures,  \* the module-level feature store
    qVal,         \* value of the search box #q
    selA,         \* value of the first selector (#difficulty / #province)
    selB,         \* value of the second selector (#activity / #region)
    optsA,        \* option values of the first selector, in document order
    optsB,        \* option values of the second selector, in document order
    grid,         \* the features of the cards in #grid, in document order
    count,        \* text of the #count label
    geoLayer,     \* leaflet: the module-level geoLayer (NoLayer or a layer)
    mapLayers,    \* leaflet: bag of the GeoJSON layers currently on the map
    srcExists,    \* mapbox: the "tours" source has been added
    srcData,      \* mapbox: features held by the "tours" source
    viewport,     \* what the map was last fitted to
    hoverPopup,   \* mapbox: the feature the hover popup shows (NoPopup: removed)
    rendered,     \* the list given to the most recent render (NoRender before)
    clicked,      \* the feature the last handler was a click on (or NoFeature)
    opens,        \* window.open calls made by the last handler
    fetches,      \* number of fetch() calls issued so far
    runs,         \* runs of applyFiltersAndRender in the last handler
    raised        \* the last handler ended with an uncaught exception

vars == <<variant, els, pc, mapReady, allFeatures, qVal, selA, selB, optsA,
          optsB, grid, count, geoLayer, mapLayers, srcExists, srcData,
          viewport, hoverPopup, rendered, clicked, opens, fetches, runs,
          raised>>

-----------------------------------------------------------------------------
(* JavaScript values and strings *)

Undef == [t |-> "undefined"]
NullV == [t |-> "null"]
S(s) == [t |-> "string", s |-> s]

IsNullish(v) == v.t \in {"undefined", "null"}

\* Boolean(v): undefined, null and "" are falsy
Truthy(v) == v.t = "string" /\ v.s # <<>>

sUndefined == <<"u","n","d","e","f","i","n","e","d">>
sNull == <<"n","u","l","l">>

\* String(v)
ToStr(v) ==
    CASE v.t = "undefined" -> sUndefined
      [] v.t = "null" -> sNull
      [] OTHER -> v.s

UpperLetters == <<"A","B","C","D","E","F","G","H","I","J","K","L","M",
                  "N","O","P","Q","R","S","T","U","V","W","X","Y","Z">>
LowerLetters == <<"a","b","c","d","e","f","g","h","i","j","k","l","m",
                  "n","o","p","q","r","s","t","u","v","w","x","y","z">>

\* The lower-case form of each upper-case letter
LowerOf ==
    [c \in {UpperLetters[i] : i \in DOMAIN UpperLetters} |->
        LowerLetters[CHOOSE i \in DOMAIN UpperLetters : UpperLetters[i] = c]]

LowerChar(c) == IF c \in DOMAIN LowerOf THEN LowerOf[c] ELSE c

\* String.prototype.toLowerCase
ToLowerCase(s) == [i \in DOMAIN s |-> LowerChar(s[i])]

WhiteSpace == {" ", "\t"}

RECURSIVE TrimStart(_)
TrimStart(s) ==
    IF s = <<>> THEN s
    ELSE IF Head(s) \in WhiteSpace THEN TrimStart(Tail(s)) ELSE s

RECURSIVE TrimEnd(_)
TrimEnd(s) ==
    IF s = <<>> THEN s
    ELSE IF s[Len(s)] \in WhiteSpace THEN TrimEnd(SubSeq(s, 1, Len(s) - 1))
    ELSE s

\* String.prototype.trim
Trim(s) == TrimEnd(TrimStart(s))

\* String.prototype.includes
Includes(hay, needle) ==
    \E i \in 0..(Len(hay) - Len(needle)) :
        SubSeq(hay, i + 1, i + Len(needle)) = needle

\* norm(s): (s ?? "").toString().trim().toLowerCase()
norm(v) == ToLowerCase(Trim(IF IsNullish(v) THEN <<>> ELSE v.s))

-----------------------------------------------------------------------------
(* Features *)

\* The object `{}`: every property reads as undefined.
EmptyProps ==
    [t |-> "object", title |-> Undef, slug |-> Undef, page |-> Undef,
     region |-> Undef, province |-> Undef, subtitle |-> Undef,
     country |-> Undef, activity |-> Undef, difficulty |-> Undef,
     cover |-> Undef, direction |-> Undef, direcrtion |-> Undef]

Pos(lng, lat) == [t |-> "array", k |-> "pos", lng |-> lng, lat |-> lat]
List(items) == [t |-> "array", k |-> "list", items |-> items]
Geometry(type, coords) == [t |-> "object", type |-> type, coordinates |-> coords]
Feature(props, geom) == [t |-> "object", properties |-> props, geometry |-> geom]

sBC == <<"B","C">>
sbc == <<"b","c">>
sbcPadded == <<" ","b","c"," ">>
sAB == <<"A","B">>
sWhistler == <<"W","h","i","s","t","l","e","r">>
sSquamish == <<"S","q","u","a","m","i","s","h">>
sCanmore == <<"C","a","n","m","o","r","e">>
sGinPeak == <<"G","i","n"," ","P","e","a","k">>
sGinPadded == <<" ","g","i","n"," ">>
sSkyPilot == <<"S","k","y"," ","P","i","l","o","t">>
sGinpeakUp == <<"g","i","n","p","e","a","k","-","u","p">>
sSkyPage == <<"s","k","y",".","h","t","m","l">>
sAdvanced == <<"A","d","v","a","n","c","e","d">>
sadvanced == <<"a","d","v","a","n","c","e","d">>
sAdvancedPadded == <<" ","A","D","V","A","N","C","E","D"," ">>
sAdvancedExpert == <<"a","d","v","a","n","c","e","d","/","e","x","p","e","r","t">>
sIntermediate == <<"I","n","t","e","r","m","e","d","i","a","t","e">>
sintermediate == <<"i","n","t","e","r","m","e","d","i","a","t","e">>
sSki == <<"s","k","i">>
sSplit == <<"s","p","l","i","t">>
sUp == <<"u","p">>
sAscent == <<"a","s","c","e","n","t">>
sASCENT == <<"A","S","C","E","N","T">>
sAscentMixed == <<"A","s","c","e","n","t">>
sDown == <<"d","o","w","n">>
sDownPadded == <<" ","D","o","w","n"," ">>
sDescent == <<"d","e","s","c","e","n","t">>
sDescentMixed == <<"D","e","s","c","e","n","t">>
sTraverse == <<"t","r","a","v","e","r","s","e">>
sTraverseMixed == <<"T","r","a","v","e","r","s","e">>
sCross == <<"c","r","o","s","s">>
sLoop == <<"l","o","o","p">>

\* The features the modelled documents are built from.
TourWhistler ==
    Feature([EmptyProps EXCEPT !.title = S(sGinPeak), !.province = S(sBC),
                               !.region = S(sWhistler), !.slug = S(sGinpeakUp),
                               !.difficulty = S(sadvanced), !.activity = S(sSki),
                               !.cover = S(<<"c">>),
                               !.direction = S(sASCENT)],
            Geometry("LineString", List(<<Pos(1, 1), Pos(2, 3)>>)))

TourSquamish ==
    Feature([EmptyProps EXCEPT !.title = S(sSkyPilot), !.province = S(sBC),
                               !.region = S(sSquamish), !.page = S(sSkyPage),
                               !.slug = S(sGinpeakUp),
                               !.difficulty = S(sintermediate),
                               !.activity = S(sSki),
                               !.direcrtion = S(sAscentMixed)],
            Geometry("Point", Pos(4, 2)))

TourCanmore ==
    Feature([EmptyProps EXCEPT !.province = S(sAB), !.region = S(sCanmore),
                               !.slug = S(sGinpeakUp),
                               !.direction = S(sTraverseMixed)],
            NullV)

TourLowerCase ==
    Feature([EmptyProps EXCEPT !.title = S(sGinPadded),
                               !.province = S(sbcPadded),
                               !.region = S(<<>>), !.page = S(<<>>),
                               !.difficulty = S(sAdvancedPadded),
                               !.activity = S(sSplit),
                               !.direction = S(sDownPadded)],
            Geometry("Point", Undef))

TourBare ==
    Feature([EmptyProps EXCEPT !.region = NullV, !.subtitle = S(sbc),
                               !.difficulty = S(sAdvancedExpert),
                               !.direction = S(<<>>),
                               !.direcrtion = S(sDown)],
            Geometry("MultiPoint", List(<<>>)))

TourNoProps == Feature(NullV, Geometry("Point", Pos(0, 5)))

\* The objects a `features` array may hold, in the order documents list
\* them; the last is a null entry.  The state refers to a feature by its
\* index here: the scripts share the parsed objects and never write to them.
Pool == <<TourWhistler, TourSquamish, TourCanmore, TourLowerCase, TourBare,
          TourNoProps, NullV>>


\* `f.properties || {}`, f a feature of Pool
PropsOf(f) ==
    IF IsNullish(Pool[f].properties) THEN EmptyProps ELSE Pool[f].properties

\* `a || b` on values
OrElse(a, b) == IF Truthy(a) THEN a ELSE b

\* `a ?? b` on values
Coalesce(a, b) == IF IsNullish(a) THEN b ELSE a

-----------------------------------------------------------------------------
(* Direction colours *)

ColorAscent == "#1f6feb"
ColorDescent == "#b64a4a"
ColorTraverse == "#b000b5"

\* trackColorFromProps(p) of the earlier mapbox script
trackColorFromProps(p) ==
    LET d == norm(OrElse(p.direction, OrElse(p.direcrtion, S(<<>>))))
    IN  IF d = sUp \/ d = sAscent THEN ColorAscent
        ELSE IF d = sDown \/ d = sDescent THEN ColorDescent
        ELSE IF d = sTraverse \/ d = sCross THEN ColorTraverse
        ELSE ColorAscent

\* ["downcase", ["coalesce", ["get", "direction"], ["get", "direcrtion"], ""]]
StyleDirection(p) ==
    ToLowerCase(Coalesce(p.direction, Coalesce(p.direcrtion, S(<<>>))).s)

\* A mutant of lineColor: the misspelt property is not read.
lineColorNoAlias(p) ==
    LET d == ToLowerCase(Coalesce(p.direction, S(<<>>)).s)
    IN  IF d = sUp \/ d = sAscent THEN ColorAscent
        ELSE IF d = sDown \/ d = sDescent THEN ColorDescent
        ELSE IF d = sTraverse \/ d = sCross THEN ColorTraverse
        ELSE ColorAscent

\* The "line-color" case expression of the tours-line layer
lineColor(p) ==
    IF StyleDirection(p) = sUp \/ StyleDirection(p) = sAscent THEN ColorAscent
    ELSE IF StyleDirection(p) = sDown \/ StyleDirection(p) = sDescent
         THEN ColorDescent
    ELSE IF StyleDirection(p) = sTraverse \/ StyleDirection(p) = sCross
         THEN ColorTraverse
    ELSE ColorAscent

\* The "circle-color" case expression of the tours-point layer
circleColor(p) ==
    IF StyleDirection(p) = sUp \/ StyleDirection(p) = sAscent THEN ColorAscent
    ELSE IF StyleDirection(p) = sDown \/ StyleDirection(p) = sDescent
         THEN ColorDescent
    ELSE IF StyleDirection(p) = sTraverse \/ StyleDirection(p) = sCross
         THEN ColorTraverse
    ELSE ColorAscent

\* The layer filters: ["==", ["geometry-type"], ...]
LineTypes == {"LineString", "MultiLineString"}
PointTypes == {"Point", "MultiPoint"}

\* The colour feature f of the source is painted with, or null when no
\* layer draws it
NotPainted == [t |-> "null"]
Painted(f) ==
    LET g == Pool[f].geometry
    IN  IF IsNullish(g) THEN NotPainted
        ELSE IF g.type \in LineTypes
             THEN [t |-> "line", color |-> lineColor(PropsOf(f))]
        ELSE IF g.type \in PointTypes
             THEN [t |-> "circle", color |-> circleColor(PropsOf(f))]
        ELSE NotPainted

\* Values of the direction and direcrtion properties
DirectionValues ==
    {Undef, NullV} \cup
    {S(s) : s \in {<<>>, sUp, sASCENT, sAscentMixed, sDown, sDownPadded,
                   sDescentMixed, sTraverseMixed, sCross, sLoop}}

\* Properties objects over those values
DirectionInputs ==
    {[EmptyProps EXCEPT !.direction = a, !.direcrtion = b] :
        a \in DirectionValues, b \in DirectionValues}

-----------------------------------------------------------------------------
(* openTour *)

sToursDir == <<".","/","t","o","u","r","s","/">>
sDotHtml == <<".","h","t","m","l">>

\* const url = p.page || (p.slug ? `./tours/${p.slug}.html` : null)
TourUrl(p) ==
    OrElse(p.page,
           IF Truthy(p.slug) THEN S(sToursDir \o p.slug.s \o sDotHtml)
           ELSE NullV)

\* window.open(url, "_blank", "noopener,noreferrer")
WindowOpen(url) ==
    [url |-> url, target |-> "_blank", features |-> {"noopener", "noreferrer"}]

\* A mutant of openTour: the slug is preferred over the page.
openTourSlugFirst(p) ==
    IF Truthy(p.slug)
    THEN <<WindowOpen(sToursDir \o p.slug.s \o sDotHtml)>>
    ELSE IF Truthy(p.page) THEN <<WindowOpen(p.page.s)>> ELSE <<>>

\* openTour(p): the window.open calls it makes
openTour(p) ==
    LET url == TourUrl(p)
    IN  IF ~Truthy(url) THEN <<>> ELSE <<WindowOpen(url.s)>>

-----------------------------------------------------------------------------
(* passesFilters *)

\* `$(id)?.value`, for an element whose value is `value`
ElValue(id, value) == IF id \in els THEN S(value) ELSE Undef

\* The element ids of the two selectors, per page script
SelAId == IF variant = "leaflet" THEN "difficulty" ELSE "province"
SelBId == IF variant = "leaflet" THEN "activity" ELSE "region"

\* The property each selector is compared with, per page script
SelAField(p) == IF variant = "leaflet" THEN p.difficulty ELSE p.province
SelBField(p) == IF variant = "leaflet" THEN p.activity ELSE p.region

\* The properties joined into the haystack, per page script
HayFields(p) ==
    IF variant = "leaflet"
    THEN <<p.title, p.region, p.subtitle, p.activity, p.difficulty>>
    ELSE <<p.title, p.region, p.province, p.subtitle, p.country>>

\* `${norm(..)} ${norm(..)} ${norm(..)} ${norm(..)} ${norm(..)}`
Haystack(p) ==
    LET fs == HayFields(p)
    IN  norm(fs[1]) \o <<" ">> \o norm(fs[2]) \o <<" ">> \o norm(fs[3])
        \o <<" ">> \o norm(fs[4]) \o <<" ">> \o norm(fs[5])

\* passesFilters(p), with the three values it reads from the page passed
\* in: qv, av and bv are `$("q")?.value` and the two selectors' values.

\* A mutant of passesFilters: the selectors match by substring.
passesFiltersSubstring(p, qv, av, bv) ==
    LET q == norm(qv)
        a == norm(av)
        b == norm(bv)
    IN  /\ ~(q # <<>> /\ ~Includes(Haystack(p), q))
        /\ ~(a # <<>> /\ ~Includes(norm(SelAField(p)), a))
        /\ ~(b # <<>> /\ ~Includes(norm(SelBField(p)), b))

\* A mutant of passesFilters: the text query is not looked at.
passesFiltersNoQuery(p, qv, av, bv) ==
    LET a == norm(av)
        b == norm(bv)
    IN  /\ ~(a # <<>> /\ norm(SelAField(p)) # a)
        /\ ~(b # <<>> /\ norm(SelBField(p)) # b)

\* A mutant of passesFilters: the selectors are compared as written, without
\* norm.
passesFiltersCaseSensitive(p, qv, av, bv) ==
    LET q == norm(qv)
        a == IF IsNullish(av) THEN <<>> ELSE av.s
        b == IF IsNullish(bv) THEN <<>> ELSE bv.s
    IN  /\ ~(q # <<>> /\ ~Includes(Haystack(p), q))
        /\ ~(a # <<>> /\ ToStr(SelAField(p)) # a)
        /\ ~(b # <<>> /\ ToStr(SelBField(p)) # b)

\* A mutant of passesFilters: the text query is used as typed.
passesFiltersRawQuery(p, qv, av, bv) ==
    LET q == IF IsNullish(qv) THEN <<>> ELSE qv.s
        a == norm(av)
        b == norm(bv)
    IN  /\ ~(q # <<>> /\ ~Includes(Haystack(p), q))
        /\ ~(a # <<>> /\ norm(SelAField(p)) # a)
        /\ ~(b # <<>> /\ norm(SelBField(p)) # b)

\* A mutant of passesFilters: a feature lacking an indexed property fails.
passesFiltersStrict(p, qv, av, bv) ==
    LET q == norm(qv)
        a == norm(av)
        b == norm(bv)
        fs == HayFields(p)
    IN  /\ \A i \in DOMAIN fs : ~IsNullish(fs[i])
        /\ ~(q # <<>> /\ ~Includes(Haystack(p), q))
        /\ ~(a # <<>> /\ norm(SelAField(p)) # a)
        /\ ~(b # <<>> /\ norm(SelBField(p)) # b)

passesFilters(p, qv, av, bv) ==
    LET q == norm(qv)
        a == norm(av)
        b == norm(bv)
    IN  /\ ~(q # <<>> /\ ~Includes(Haystack(p), q))
        /\ ~(a # <<>> /\ norm(SelAField(p)) # a)
        /\ ~(b # <<>> /\ norm(SelBField(p)) # b)

\* store.filter((f) => passesFilters(f.properties || {})) when the search
\* box holds q and the selectors hold a and b
FilterWith(store, q, a, b) ==
    SelectSeq(store,
              LAMBDA f : passesFilters(PropsOf(f), ElValue("q", q),
                                       ElValue(SelAId, a), ElValue(SelBId, b)))

\* The filtered set under the page's current state
Filtered == FilterWith(allFeatures, qVal, selA, selB)

-----------------------------------------------------------------------------
(* uniqSorted and populateSelect *)

\* Collation order of the characters the model uses (space and punctuation
\* before letters); letters compare by their lower-case form.
CollationOrder == <<"\t", " ", "-", ".", "/">> \o LowerLetters

RankOf == [c \in {CollationOrder[i] : i \in DOMAIN CollationOrder} |->
              CHOOSE i \in DOMAIN CollationOrder : CollationOrder[i] = c]

Rank(c) == IF LowerChar(c) \in DOMAIN RankOf THEN RankOf[LowerChar(c)] ELSE 0

\* a.localeCompare(b, undefined, { sensitivity: "base" }) <= 0
RECURSIVE LocaleLeq(_, _)
LocaleLeq(a, b) ==
    IF a = <<>> THEN TRUE
    ELSE IF b = <<>> THEN FALSE
    ELSE IF Rank(Head(a)) < Rank(Head(b)) THEN TRUE
    ELSE IF Rank(Head(a)) > Rank(Head(b)) THEN FALSE
    ELSE LocaleLeq(Tail(a), Tail(b))

\* Array.from(new Set(arr)): first occurrences, in insertion order
RECURSIVE Dedupe(_)
Dedupe(arr) ==
    IF arr = <<>> THEN <<>>
    ELSE LET rest == Dedupe(SubSeq(arr, 1, Len(arr) - 1))
             x == arr[Len(arr)]
         IN  IF \E i \in DOMAIN rest : rest[i] = x THEN rest
             ELSE Append(rest, x)

\* Insert x after every element that does not compare greater (stable).
RECURSIVE InsertSorted(_, _)
InsertSorted(sorted, x) ==
    IF sorted = <<>> THEN <<x>>
    ELSE IF LocaleLeq(Head(sorted), x)
         THEN <<Head(sorted)>> \o InsertSorted(Tail(sorted), x)
         ELSE <<x>> \o sorted

\* Array.prototype.sort with the comparator above (a stable sort)
RECURSIVE SortBase(_)
SortBase(arr) ==
    IF arr = <<>> THEN <<>>
    ELSE InsertSorted(SortBase(SubSeq(arr, 1, Len(arr) - 1)), arr[Len(arr)])

NonEmptyStr(s) == s # <<>>

\* uniqSorted(arr), arr an array of strings
uniqSorted(arr) == SortBase(Dedupe(SelectSeq(arr, NonEmptyStr)))

SeqIncludes(values, x) == \E i \in DOMAIN values : values[i] = x

\* populateSelect(id, values, allLabel): the options and the value the
\* select is left with, from the value it had
PopulatedOptions(values) == <<<<>>>> \o values
PopulatedValue(values, current) ==
    IF SeqIncludes(values, current) THEN current ELSE <<>>

\* props.map((p) => p.province).map(String)
ProvinceValues(feats) ==
    [i \in DOMAIN feats |-> ToStr(PropsOf(feats[i]).province)]

\* props.map((p) => p.region).map(String)
RegionValues(feats) ==
    [i \in DOMAIN feats |-> ToStr(PropsOf(feats[i]).region)]

-----------------------------------------------------------------------------
(* Bounds *)

NewBounds == [t |-> "bounds", empty |-> TRUE]

Min(a, b) == IF a <= b THEN a ELSE b
Max(a, b) == IF a >= b THEN a ELSE b

\* bounds.extend([lng, lat])
Extend(b, lng, lat) ==
    IF b.empty
    THEN [t |-> "bounds", empty |-> FALSE, w |-> lng, s |-> lat,
          e |-> lng, n |-> lat]
    ELSE [t |-> "bounds", empty |-> FALSE, w |-> Min(b.w, lng),
          s |-> Min(b.s, lat), e |-> Max(b.e, lng), n |-> Max(b.n, lat)]

\* extendBoundsWithCoords(bounds, coords): coords is undefined, a position
\* [k |-> "pos"] or an array of coords [k |-> "list"]
RECURSIVE extendBoundsWithCoords(_, _)
RECURSIVE ExtendAll(_, _)
ExtendAll(b, items) ==
    IF items = <<>> THEN b
    ELSE ExtendAll(extendBoundsWithCoords(b, Head(items)), Tail(items))

extendBoundsWithCoords(b, coords) ==
    IF coords.t # "array" THEN b
    ELSE IF coords.k = "pos" THEN Extend(b, coords.lng, coords.lat)
    ELSE ExtendAll(b, coords.items)

HasCoords(f) ==
    /\ ~IsNullish(Pool[f].geometry)
    /\ ~IsNullish(Pool[f].geometry.coordinates)

\* boundsForFeatures(features): null, or the bounds of every feature that
\* has a geometry with coordinates
RECURSIVE BoundsFrom(_, _)
BoundsFrom(b, features) ==
    IF features = <<>> THEN b
    ELSE LET f == Head(features)
         IN  IF ~HasCoords(f) THEN BoundsFrom(b, Tail(features))
             ELSE BoundsFrom(
                    extendBoundsWithCoords(IF IsNullish(b) THEN NewBounds ELSE b,
                                           Pool[f].geometry.coordinates),
                    Tail(features))

boundsForFeatures(features) == BoundsFrom(NullV, features)

\* `b && !b.isEmpty?.()`
UsableBounds(b) == ~IsNullish(b) /\ ~b.empty

\* Reading a member of `object` throws a TypeError when it is nullish.
ReadThrows(object) == IsNullish(object)

\* A mutant of boundsForFeaturesThrows: g.coordinates is read without the
\* `!g ||` before it.
boundsForFeaturesUnguardedThrows(features) ==
    \E i \in DOMAIN features : ReadThrows(Pool[features[i]].geometry)

\* boundsForFeatures(features) throws: `!g || !g.coordinates` reads
\* g.coordinates of a g that is not falsy only.
boundsForFeaturesThrows(features) ==
    \E i \in DOMAIN features :
        LET g == Pool[features[i]].geometry
        IN  ~(~Truthy(g)) /\ ReadThrows(g)

-----------------------------------------------------------------------------
(* Rendering *)

sNoCover == <<"N","o"," ","c","o","v","e","r">>
sUntitledTour == <<"U","n","t","i","t","l","e","d"," ","t","o","u","r">>
sTour == <<"T","o","u","r">>

\* What the card renderCards builds for feature f shows (the numeric chips
\* vert_m and distance_km are not modelled).  #grid is held as the list of
\* the features its cards were built from.
Card(f) ==
    LET p == PropsOf(f)
        labels == SelectSeq(<<p.activity, p.difficulty>>, Truthy)
    IN  [cover |-> IF Truthy(p.cover) THEN [img |-> p.cover.s]
                   ELSE [text |-> sNoCover],
         title |-> OrElse(p.title, OrElse(p.slug, S(sUntitledTour))).s,
         subtitle |-> OrElse(p.region, OrElse(p.subtitle, S(<<>>))).s,
         chips |-> [i \in DOMAIN labels |-> labels[i].s]]

NoLayer == [t |-> "null"]
GeoJSONLayer(features) == [t |-> "layer", features |-> features]

\* A mutant of renderCardsThrows: `if (!grid || !count) return` is missing.
renderCardsUnguardedThrows(features) ==
    "grid" \notin els \/ "count" \notin els

\* renderCards(features) throws: grid.innerHTML and count.textContent are
\* reached past `if (!grid || !count) return` only.
renderCardsThrows(features) ==
    IF "grid" \notin els \/ "count" \notin els THEN FALSE
    ELSE "grid" \notin els \/ "count" \notin els

\* renderCards(features)
renderCards(features) ==
    IF "grid" \notin els \/ "count" \notin els
    THEN UNCHANGED <<grid, count>>
    ELSE /\ grid' = features
         /\ count' = [kind |-> "shown", n |-> Len(features)]

\* A mutant of renderMap: the previous layer is left on the map.
renderMapAdditive(features) ==
    IF ~mapReady
    THEN UNCHANGED <<geoLayer, mapLayers>>
    ELSE /\ geoLayer' = GeoJSONLayer(features)
         /\ mapLayers' = mapLayers (+) SetToBag({GeoJSONLayer(features)})

\* renderMap(features)
renderMap(features) ==
    IF ~mapReady
    THEN UNCHANGED <<geoLayer, mapLayers>>
    ELSE LET cleared == IF geoLayer = NoLayer THEN mapLayers
                        ELSE mapLayers (-) SetToBag({geoLayer})
         IN  /\ geoLayer' = GeoJSONLayer(features)
             /\ mapLayers' = cleared (+) SetToBag({GeoJSONLayer(features)})

\* setSourceData(features)
setSourceData(features) ==
    IF ~srcExists THEN UNCHANGED srcData
    ELSE srcData' = features

\* What the last run of applyFiltersAndRender has passed to the renderers
NoRender == [t |-> "null"]
Render(features) == [t |-> "render", features |-> features]

\* A mutant of applyFiltersAndRender: the store is filtered in place
\* (`allFeatures = allFeatures.filter(...)`).
applyFiltersAndRenderInPlace(store, q, a, b) ==
    /\ runs' = 1
    /\ rendered' = Render(FilterWith(store, q, a, b))
    /\ allFeatures' = rendered'.features
    /\ LET filtered == rendered'.features
       IN  IF variant = "leaflet"
           THEN /\ renderCards(filtered)
                /\ renderMap(filtered)
                /\ UNCHANGED srcData
           ELSE /\ setSourceData(filtered)
                /\ UNCHANGED <<grid, count, geoLayer, mapLayers>>

\* A mutant of applyFiltersAndRender: the cards are not rendered.
applyFiltersAndRenderMapOnly(store, q, a, b) ==
    /\ allFeatures' = store
    /\ runs' = 1
    /\ rendered' = Render(FilterWith(store, q, a, b))
    /\ UNCHANGED <<grid, count>>
    /\ LET filtered == rendered'.features
       IN  IF variant = "leaflet"
           THEN renderMap(filtered) /\ UNCHANGED srcData
           ELSE setSourceData(filtered) /\ UNCHANGED <<geoLayer, mapLayers>>

\* applyFiltersAndRender() throws, for a handler that has left the store as
\* `store` and the controls as q, a, b: renderMap returns at `if (!map)` and
\* setSourceData at `if (!src)` before they read either.
applyFiltersAndRenderThrows(store, q, a, b) ==
    variant = "leaflet" /\ renderCardsThrows(FilterWith(store, q, a, b))

\* applyFiltersAndRender(), run when the handler has left the store as
\* `store`, the search box as q and the selectors as a and b; the store is
\* read, not written.
applyFiltersAndRender(store, q, a, b) ==
    /\ allFeatures' = store
    /\ runs' = 1
    /\ rendered' = Render(FilterWith(store, q, a, b))
    /\ LET filtered == rendered'.features
       IN  IF variant = "leaflet"
           THEN /\ renderCards(filtered)
                /\ renderMap(filtered)
                /\ UNCHANGED srcData
           ELSE /\ setSourceData(filtered)
                /\ UNCHANGED <<grid, count, geoLayer, mapLayers>>

-----------------------------------------------------------------------------
(* Input data: the documents the fetch may return *)

MaxFeatures == 2

\* The indices in idx, in increasing order.
RECURSIVE Pick(_, _)
Pick(idx, i) ==
    IF i > Len(Pool) THEN <<>>
    ELSE (IF i \in idx THEN <<i>> ELSE <<>>) \o Pick(idx, i + 1)

\* The three tours of the end-to-end scenario: BC/Whistler, BC/Squamish and
\* AB/Canmore.
ScenarioDocument == [features |-> [t |-> "array", items |-> <<1, 2, 3>>]]

\* The documents: up to MaxFeatures entries of Pool, the scenario's three,
\* or no `features` at all.
Documents ==
    {[features |-> [t |-> "array", items |-> Pick(idx, 1)]] :
        idx \in {x \in SUBSET DOMAIN Pool : Cardinality(x) <= MaxFeatures}}
    \cup {ScenarioDocument, [features |-> Undef]}

\* (gj.features || []).filter(Boolean)
LoadedFeatures(gj) ==
    IF IsNullish(gj.features) THEN <<>>
    ELSE SelectSeq(gj.features.items, LAMBDA f : ~IsNullish(Pool[f]))

-----------------------------------------------------------------------------
(* Page markup and user input *)

Variants == {"leaflet", "mapbox"}

AllEls == {"q", SelAId, SelBId, "grid", "count", "fit"}

\* The page holds every element the script looks up, lacks one of them, or
\* lacks them all.
Layouts ==
    {AllEls, {}} \cup {AllEls \ {e} : e \in {"q", SelAId, "grid", "count"}}

\* The options the markup gives the selectors before any script runs.
HtmlOptionsA ==
    IF variant = "leaflet" THEN <<<<>>, sAdvanced, sIntermediate>>
    ELSE <<<<>>, sBC>>
HtmlOptionsB ==
    IF variant = "leaflet" THEN <<<<>>, sSki>> ELSE <<<<>>>>

sGin == <<"g","i","n">>
sGinShout == <<" ","G","I","N"," ">>
sAcrossFields == <<"k"," ","w">>
sBlank == <<" ">>

\* Texts typed into the search box
Queries == {<<>>, sBlank, sGinShout, sAcrossFields}

\* data-q values of the preset chips (`getAttribute("data-q") || ""`)
Presets == {<<>>, sGin}

\* A page lacking an element is only given documents of this many entries.
MaxFeaturesPartial == 1

DocumentsFor(layout) ==
    IF layout = AllEls THEN Documents
    ELSE {gj \in Documents :
            IsNullish(gj.features) \/ Len(gj.features.items) <= MaxFeaturesPartial}

InitialView == [t |-> "initial"]
FitView(b) == [t |-> "fit", bounds |-> b]
\* What the hover popup shows for feature f
HoverTitle(f) ==
    OrElse(PropsOf(f).title, OrElse(PropsOf(f).slug, S(sTour))).s

\* mapbox: the hover popup, off the map or on it over feature f
NoPopup == [t |-> "null"]
Popup(f) == [t |-> "popup", feature |-> f, html |-> HoverTitle(f)]

\* The feature the last handler was a click on, if it was a click
NoFeature == [t |-> "null"]
ClickOn(f) == [t |-> "click", feature |-> f]

SeqRange(s) == {s[i] : i \in DOMAIN s}

-----------------------------------------------------------------------------
(* The state machine *)

Init ==
    /\ variant \in Variants
    /\ els \in Layouts
    /\ pc = "start"
    /\ mapReady = FALSE
    /\ allFeatures = <<>>
    /\ qVal = <<>>
    /\ selA = <<>>
    /\ selB = <<>>
    /\ optsA = (IF SelAId \in els THEN HtmlOptionsA ELSE <<>>)
    /\ optsB = (IF SelBId \in els THEN HtmlOptionsB ELSE <<>>)
    /\ grid = <<>>
    /\ count = [kind |-> "initial"]
    /\ geoLayer = NoLayer
    /\ mapLayers = EmptyBag
    /\ srcExists = FALSE
    /\ srcData = <<>>
    /\ viewport = InitialView
    /\ hoverPopup = NoPopup
    /\ rendered = NoRender
    /\ clicked = NoFeature
    /\ opens = <<>>
    /\ fetches = 0
    /\ runs = 0
    /\ raised = FALSE

\* Variables no handler assigns
Fixed == <<variant, els>>

\* What a handler that is not a click leaves of the last click
NoClick == clicked' = NoFeature /\ opens' = <<>>

\* A handler that does not call applyFiltersAndRender and cannot throw
Quiet == runs' = 0 /\ raised' = FALSE

\* The DOMContentLoaded handler.  leaflet: initMap, wireHeroControls,
\* wireFilterControls, loadGeoJSON up to its first await.  mapbox: initMap
\* and wireFilterControls; loadGeoJSON waits for the map's load event.
DOMContentLoaded ==
    /\ pc = "start"
    /\ mapReady' = TRUE
    /\ IF variant = "leaflet"
       THEN pc' = "fetching" /\ fetches' = fetches + 1
       ELSE pc' = "wired" /\ UNCHANGED fetches
    /\ NoClick
    /\ UNCHANGED <<Fixed, allFeatures, qVal, selA, selB, optsA, optsB, grid,
                   count, geoLayer, mapLayers, srcExists, srcData, viewport,
                   hoverPopup, rendered>>
    /\ Quiet

\* mapbox: the map's load handler: ensureSourceAndLayers, wireHover,
\* wireClicks, loadGeoJSON up to its first await.
MapLoad ==
    /\ variant = "mapbox"
    /\ pc = "wired"
    /\ srcExists' = TRUE
    /\ srcData' = (IF srcExists THEN srcData ELSE <<>>)
    /\ pc' = "fetching"
    /\ fetches' = fetches + 1
    /\ NoClick
    /\ UNCHANGED <<Fixed, mapReady, allFeatures, qVal, selA, selB, optsA,
                   optsB, grid, count, geoLayer, mapLayers, viewport,
                   hoverPopup, rendered>>
    /\ Quiet

FailureKinds == {"network", "not ok", "bad json"}

\* A mutant of FetchFail: a failed fetch is tried again.
FetchFailRetry(kind) ==
    /\ pc = "fetching"
    /\ pc' = "fetching"
    /\ fetches' = fetches + 1
    /\ NoClick
    /\ UNCHANGED <<Fixed, mapReady, allFeatures, qVal, selA, selB, optsA,
                   optsB, grid, count, geoLayer, mapLayers, srcExists, srcData,
                   viewport, hoverPopup, rendered>>
    /\ Quiet

\* The #count label after loadGeoJSON has met a failure of this kind
FailureCount(kind) ==
    IF variant = "leaflet" /\ "count" \in els THEN [kind |-> "failed"] ELSE count

\* loadGeoJSON resumes with a rejected fetch, a response that is not ok, or
\* a body that does not parse.
FetchFail(kind) ==
    /\ pc = "fetching"
    /\ pc' = "failed"
    /\ count' = FailureCount(kind)
    /\ NoClick
    /\ UNCHANGED <<Fixed, mapReady, allFeatures, qVal, selA, selB, optsA,
                   optsB, grid, geoLayer, mapLayers, srcExists, srcData,
                   viewport, hoverPopup, rendered, fetches>>
    /\ Quiet

\* The value and the options populateSelect leaves a select with; a missing
\* select and the leaflet page keep what they had.
ValueAfterLoad(id, values, current) ==
    IF variant = "mapbox" /\ id \in els
    THEN PopulatedValue(values, current) ELSE current
OptionsAfterLoad(id, values, current) ==
    IF variant = "mapbox" /\ id \in els
    THEN PopulatedOptions(values) ELSE current

\* The initial fit.  leaflet: fitBounds over a layer built from the whole
\* document, inside try/catch; mapbox: boundsForFeatures(allFeatures).
InitialFit(feats) ==
    LET b == boundsForFeatures(feats)
    IN  viewport' = IF feats # <<>> /\ UsableBounds(b) THEN FitView(b)
                    ELSE viewport

\* A mutant of FetchOk: the render at fetch completion uses the selector
\* values read before populateSelect has rebuilt the selectors
FetchOkRenderFirst(gj) ==
    /\ pc = "fetching"
    /\ pc' = "loaded"
    /\ LET feats == LoadedFeatures(gj)
           provinces == uniqSorted(ProvinceValues(feats))
           regions == uniqSorted(RegionValues(feats))
       IN  /\ optsA' = OptionsAfterLoad(SelAId, provinces, optsA)
           /\ optsB' = OptionsAfterLoad(SelBId, regions, optsB)
           /\ selA' = ValueAfterLoad(SelAId, provinces, selA)
           /\ selB' = ValueAfterLoad(SelBId, regions, selB)
           /\ applyFiltersAndRender(feats, qVal, selA, selB)
           /\ InitialFit(feats)
    /\ NoClick
    /\ UNCHANGED <<Fixed, qVal, mapReady, srcExists, hoverPopup, fetches>>
    /\ raised' = FALSE

\* loadGeoJSON resumes with the parsed document gj.
FetchOk(gj) ==
    /\ pc = "fetching"
    /\ pc' = "loaded"
    /\ LET feats == LoadedFeatures(gj)
           provinces == uniqSorted(ProvinceValues(feats))
           regions == uniqSorted(RegionValues(feats))
           newA == ValueAfterLoad(SelAId, provinces, selA)
           newB == ValueAfterLoad(SelBId, regions, selB)
       IN  /\ optsA' = OptionsAfterLoad(SelAId, provinces, optsA)
           /\ optsB' = OptionsAfterLoad(SelBId, regions, optsB)
           /\ selA' = newA
           /\ selB' = newB
           /\ applyFiltersAndRender(feats, qVal, newA, newB)
           /\ InitialFit(feats)
    /\ NoClick
    /\ UNCHANGED <<Fixed, qVal, mapReady, srcExists, hoverPopup, fetches>>
    /\ raised' = FALSE

Wired == pc # "start"

\* An input event on #q: the user has made its value v.
InputQ(v) ==
    /\ Wired
    /\ "q" \in els
    /\ qVal' = v
    /\ NoClick
    /\ UNCHANGED <<Fixed, selA, selB, pc, mapReady, optsA, optsB,
                   srcExists, viewport, hoverPopup, fetches>>
    /\ applyFiltersAndRender(allFeatures, v, selA, selB)
    /\ raised' = applyFiltersAndRenderThrows(allFeatures, v, selA, selB)

\* A change event on the first selector: the user has picked option v.
ChangeSelA(v) ==
    /\ Wired
    /\ SelAId \in els
    /\ v \in SeqRange(optsA)
    /\ selA' = v
    /\ NoClick
    /\ UNCHANGED <<Fixed, qVal, selB, pc, mapReady, optsA, optsB,
                   srcExists, viewport, hoverPopup, fetches>>
    /\ applyFiltersAndRender(allFeatures, qVal, v, selB)
    /\ raised' = applyFiltersAndRenderThrows(allFeatures, qVal, v, selB)

\* A change event on the second selector: the user has picked option v.
ChangeSelB(v) ==
    /\ Wired
    /\ SelBId \in els
    /\ v \in SeqRange(optsB)
    /\ selB' = v
    /\ NoClick
    /\ UNCHANGED <<Fixed, qVal, selA, pc, mapReady, optsA, optsB,
                   srcExists, viewport, hoverPopup, fetches>>
    /\ applyFiltersAndRender(allFeatures, qVal, selA, v)
    /\ raised' = applyFiltersAndRenderThrows(allFeatures, qVal, selA, v)

\* leaflet: a click on a preset chip whose data-q is v.
TocChip(v) ==
    /\ variant = "leaflet"
    /\ Wired
    /\ NoClick
    /\ UNCHANGED <<Fixed, selA, selB, pc, mapReady, optsA, optsB,
                   srcExists, viewport, hoverPopup, fetches>>
    /\ LET q == IF "q" \in els THEN v ELSE qVal
       IN  /\ qVal' = q
           /\ applyFiltersAndRender(allFeatures, q, selA, selB)
           /\ raised' = applyFiltersAndRenderThrows(allFeatures, q, selA, selB)

\* A click on #fit.  leaflet: fitBounds over geoLayer inside try/catch,
\* nothing without a geoLayer; mapbox: boundsForFeatures of the filtered set.
FitClick ==
    /\ Wired
    /\ "fit" \in els
    /\ runs' = 0
    /\ NoClick
    /\ UNCHANGED <<Fixed, pc, mapReady, allFeatures, qVal, selA, selB, optsA,
                   optsB, grid, count, geoLayer, mapLayers, srcExists, srcData,
                   hoverPopup, rendered, fetches>>
    /\ LET b == IF variant = "leaflet"
                THEN (IF geoLayer = NoLayer THEN NullV
                      ELSE boundsForFeatures(geoLayer.features))
                ELSE boundsForFeatures(Filtered)
       IN  viewport' = IF UsableBounds(b) THEN FitView(b) ELSE viewport
    /\ raised' = (variant = "mapbox" /\ boundsForFeaturesThrows(Filtered))

\* leaflet: a click on the i-th card.
CardClick(i) ==
    /\ variant = "leaflet"
    /\ i \in DOMAIN grid
    /\ clicked' = ClickOn(grid[i])
    /\ opens' = openTour(PropsOf(grid[i]))
    /\ UNCHANGED <<Fixed, pc, mapReady, allFeatures, qVal, selA, selB, optsA,
                   optsB, grid, count, geoLayer, mapLayers, srcExists, srcData,
                   viewport, hoverPopup, rendered, fetches>>
    /\ Quiet

\* The features drawn on the map
Displayed ==
    IF variant = "leaflet"
    THEN (IF geoLayer = NoLayer THEN <<>> ELSE geoLayer.features)
    ELSE srcData

\* A click on the i-th feature drawn on the map.  leaflet: the layer's click
\* handler; mapbox: clickHandler (the popup it adds is not modelled).
MapClick(i) ==
    /\ i \in DOMAIN Displayed
    /\ clicked' = ClickOn(Displayed[i])
    /\ opens' = openTour(PropsOf(Displayed[i]))
    /\ UNCHANGED <<Fixed, pc, mapReady, allFeatures, qVal, selA, selB, optsA,
                   optsB, grid, count, geoLayer, mapLayers, srcExists, srcData,
                   viewport, hoverPopup, rendered, fetches>>
    /\ Quiet

\* mapbox: mousemove over the i-th drawn feature shows the hover popup.
Hover(i) ==
    /\ variant = "mapbox"
    /\ i \in DOMAIN srcData
    /\ hoverPopup' = Popup(srcData[i])
    /\ NoClick
    /\ UNCHANGED <<Fixed, pc, mapReady, allFeatures, qVal, selA, selB, optsA,
                   optsB, grid, count, geoLayer, mapLayers, srcExists, srcData,
                   viewport, rendered, fetches>>
    /\ Quiet

\* mapbox: mouseleave removes the hover popup.
HoverLeave ==
    /\ variant = "mapbox"
    /\ hoverPopup # NoPopup
    /\ hoverPopup' = NoPopup
    /\ NoClick
    /\ UNCHANGED <<Fixed, pc, mapReady, allFeatures, qVal, selA, selB, optsA,
                   optsB, grid, count, geoLayer, mapLayers, srcExists, srcData,
                   viewport, rendered, fetches>>
    /\ Quiet

\* mapbox: a "map:resize" event on the window: map.resize() in try/catch.
MapResize ==
    /\ variant = "mapbox"
    /\ Wired
    /\ NoClick
    /\ UNCHANGED <<Fixed, pc, mapReady, allFeatures, qVal, selA, selB, optsA,
                   optsB, grid, count, geoLayer, mapLayers, srcExists, srcData,
                   viewport, hoverPopup, rendered, fetches>>
    /\ Quiet

Next ==
    \/ DOMContentLoaded
    \/ MapLoad
    \/ pc = "fetching" /\ \E kind \in FailureKinds : FetchFail(kind)
    \/ pc = "fetching" /\ \E gj \in DocumentsFor(els) : FetchOk(gj)
    \/ \E v \in Queries : InputQ(v)
    \/ \E v \in SeqRange(optsA) : ChangeSelA(v)
    \/ \E v \in SeqRange(optsB) : ChangeSelB(v)
    \/ \E v \in Presets : TocChip(v)
    \/ FitClick
    \/ \E i \in DOMAIN grid : CardClick(i)
    \/ \E i \in DOMAIN Displayed : MapClick(i)
    \/ \E i \in DOMAIN srcData : Hover(i)
    \/ HoverLeave
    \/ MapResize

Spec == Init /\ [][Next]_vars

-----------------------------------------------------------------------------
\* Properties

\* C1: after any sequence of renders the map shows exactly the list of the
\* most recent render and nothing of earlier ones: on the leaflet page the
\* map carries one geoLayer at most, it is the layer built from the last
\* rendered list, and the card grid holds that list too; on the mapbox page
\* the "tours" source holds the last rendered list.
C1_RenderReplaces ==
    /\ BagCardinality(mapLayers) <= 1
    /\ rendered # NoRender =>
         IF variant = "leaflet"
         THEN /\ geoLayer = GeoJSONLayer(rendered.features)
              /\ mapLayers = SetToBag({geoLayer})
              /\ Displayed = rendered.features
              /\ ("grid" \in els /\ "count" \in els) => grid = rendered.features
         ELSE /\ srcData = rendered.features
              /\ Displayed = rendered.features

\* C1 happens: a loaded page whose search box has been typed into shows a
\* non-empty list that is not the whole store, so at least two renders with
\* different lists have taken place.
C1_Witness ==
    /\ pc = "loaded"
    /\ norm(S(qVal)) # <<>>
    /\ rendered # NoRender
    /\ rendered.features # <<>>
    /\ rendered.features # allFeatures
    /\ Displayed = rendered.features

RECURSIVE IsSubsequence(_, _)
\* s can be obtained from t by dropping elements
IsSubsequence(s, t) ==
    IF s = <<>> THEN TRUE
    ELSE IF t = <<>> THEN FALSE
    ELSE IF Head(s) = Head(t) THEN IsSubsequence(Tail(s), Tail(t))
    ELSE IsSubsequence(s, Tail(t))

\* C2: only the completion of the load writes allFeatures; once it is set no
\* filter, render, fit, hover or click step changes it; every render shows a
\* subset derived from the store in store order, which is what the filter
\* yields when run again on the same controls; and a step that leaves store
\* and controls as they were leaves the rendered subset as it was.
C2_StoreReadOnly ==
    [][ /\ allFeatures' # allFeatures => (pc = "fetching" /\ pc' = "loaded")
        /\ pc = "loaded" => allFeatures' = allFeatures
        /\ rendered' # NoRender =>
             /\ IsSubsequence(rendered'.features, allFeatures')
             /\ rendered'.features =
                    FilterWith(allFeatures', qVal', selA', selB')
        /\ ( /\ rendered # NoRender
             /\ allFeatures' = allFeatures
             /\ qVal' = qVal /\ selA' = selA /\ selB' = selB )
           => rendered' = rendered
      ]_vars

\* C2 happens: after the load a filter has derived a proper, non-empty subset
\* of a store that is still whole.
C2_Witness ==
    /\ pc = "loaded"
    /\ Len(allFeatures) >= 2
    /\ rendered # NoRender
    /\ rendered.features # <<>>
    /\ Len(rendered.features) < Len(allFeatures)

\* C3: when the fetch fails, loadGeoJSON writes a failure message to the
\* status counter the page has, leaves the store empty and fetches no second
\* time, on the leaflet page and on the mapbox page.
C3_FailureReported ==
    [][ (pc = "fetching" /\ pc' = "failed") =>
          /\ "count" \in els => count' = [kind |-> "failed"]
          /\ allFeatures' = <<>>
          /\ fetches' = 1
      ]_vars

\* The distinct values of a property that the loaded features hold,
\* absent, null and empty ones left out
PresentProvinces(feats) ==
    {PropsOf(feats[i]).province.s :
        i \in {j \in DOMAIN feats : Truthy(PropsOf(feats[j]).province)}}
PresentRegions(feats) ==
    {PropsOf(feats[i]).region.s :
        i \in {j \in DOMAIN feats : Truthy(PropsOf(feats[j]).region)}}

\* opts lists exactly the values of present, once each, sorted without
\* regard to case, and neither "undefined" nor "null"
OptionsMatch(opts, present) ==
    /\ SeqRange(opts) = present
    /\ \A i, j \in DOMAIN opts : i < j =>
          (opts[i] # opts[j] /\ LocaleLeq(opts[i], opts[j]))
    /\ sUndefined \notin SeqRange(opts)
    /\ sNull \notin SeqRange(opts)

\* C4: after a successful load each selector the page has offers, after its
\* leading "All" option, exactly the distinct province (region) values
\* present in the loaded features, sorted case-insensitively, with no entry
\* for an absent, null or empty property.
C4_OptionsArePresentValues ==
    (variant = "mapbox" /\ pc = "loaded") =>
        /\ SelAId \in els =>
              OptionsMatch(Tail(optsA), PresentProvinces(allFeatures))
        /\ SelBId \in els =>
              OptionsMatch(Tail(optsB), PresentRegions(allFeatures))

\* The province of feature f equals v up to letter case
ProvinceEqualsIgnoringCase(f, v) ==
    LET pv == PropsOf(f).province
    IN  pv.t = "string" /\ ToLowerCase(pv.s) = ToLowerCase(v)

CountProvince(feats, v) ==
    Cardinality({i \in DOMAIN feats : ProvinceEqualsIgnoringCase(feats[i], v)})

\* The features whose province equals v once both are trimmed and lower-cased
WithProvince(feats, v) ==
    SelectSeq(feats, LAMBDA f : norm(PropsOf(f).province) = norm(S(v)))

InSomeField(p, q) ==
    \E i \in DOMAIN HayFields(p) : Includes(norm(HayFields(p)[i]), q)

\* Feature f is among those last rendered
IsRendered(f) ==
    rendered # NoRender /\ f \in SeqRange(rendered.features)

PassesNow(f) ==
    passesFilters(PropsOf(f), ElValue("q", qVal), ElValue(SelAId, selA),
                  ElValue(SelBId, selB))

\* C6 as stated: a non-blank query that is a substring of no single indexed
\* field of a feature makes passesFilters false for it.
C6_AbsentFromFields ==
    \A i \in DOMAIN allFeatures :
        LET q == norm(ElValue("q", qVal))
        IN  (q # <<>> /\ ~InSomeField(PropsOf(allFeatures[i]), q))
               => (~PassesNow(allFeatures[i]) /\ ~IsRendered(allFeatures[i]))

\* The indexed fields of p, normalised and joined by single spaces
RECURSIVE JoinedFrom(_, _)
JoinedFrom(fs, i) ==
    IF i > Len(fs) THEN <<>>
    ELSE (IF i = 1 THEN <<>> ELSE <<" ">>) \o norm(fs[i]) \o JoinedFrom(fs, i + 1)

\* C6: a non-blank query makes passesFilters false for a feature when it is
\* not a substring of the feature's indexed fields joined by single spaces;
\* for a query holding no space that is when it is a substring of no single
\* indexed field.
C6_AbsentFromHaystack ==
    \A i \in DOMAIN allFeatures :
        LET q == norm(ElValue("q", qVal))
            p == PropsOf(allFeatures[i])
            absent == IF " " \in SeqRange(q)
                      THEN ~Includes(JoinedFrom(HayFields(p), 1), q)
                      ELSE ~InSomeField(p, q)
        IN  (q # <<>> /\ absent)
               => (~PassesNow(allFeatures[i]) /\ ~IsRendered(allFeatures[i]))

\* C6 happens: "Sky Pilot" is loaded, the search box holds " GIN ", which is
\* in none of its fields, and the tour is not rendered.
C6_Witness ==
    /\ pc = "loaded"
    /\ 2 \in SeqRange(allFeatures)
    /\ "q" \in els /\ qVal = sGinShout
    /\ selA = <<>> /\ selB = <<>>
    /\ rendered # NoRender
    /\ ~IsRendered(2)

\* C7: with no selector set, a feature with a title passes for every query
\* that is a substring of the title up to letter case, whitespace at the
\* ends of query or title included.
C7_TitleSubstringPasses ==
    \A i \in DOMAIN allFeatures :
        LET title == PropsOf(allFeatures[i]).title
        IN  ( /\ "q" \in els
              /\ title.t = "string"
              /\ Includes(ToLowerCase(title.s), ToLowerCase(qVal))
              /\ selA = <<>> /\ selB = <<>> )
            => /\ PassesNow(allFeatures[i])
               /\ rendered # NoRender => IsRendered(allFeatures[i])

\* C7 happens: the tour titled " gin " is loaded and rendered while the
\* search box holds " GIN ".
C7_Witness ==
    /\ pc = "loaded"
    /\ 4 \in SeqRange(allFeatures)
    /\ "q" \in els /\ qVal = sGinShout
    /\ selA = <<>> /\ selB = <<>>
    /\ IsRendered(4)

\* A control is missing from the page or holds the empty value
Unset(id, value) == ElValue(id, value) \in {Undef, S(<<>>)}

\* C8: with the search text empty or blank and every selector unset or
\* missing from the page, passesFilters is true of every feature, those
\* without properties included, and the filtered set is the whole store.
C8_EmptyStatePassesAll ==
    ( /\ norm(ElValue("q", qVal)) = <<>>
      /\ Unset(SelAId, selA) /\ Unset(SelBId, selB) )
    => /\ \A i \in DOMAIN allFeatures : PassesNow(allFeatures[i])
       /\ Filtered = allFeatures
       /\ rendered # NoRender => rendered.features = allFeatures

\* C8 happens: a store holding the feature without properties is rendered
\* whole while the search box holds a blank.
C8_Witness ==
    /\ pc = "loaded"
    /\ 6 \in SeqRange(allFeatures)
    /\ "q" \in els /\ qVal = sBlank
    /\ Unset(SelAId, selA) /\ Unset(SelBId, selB)
    /\ IsRendered(6)
    /\ rendered.features = allFeatures

\* The text query lets feature properties p through
QueryHolds(p) ==
    LET q == norm(ElValue("q", qVal))
    IN  q = <<>> \/ Includes(Haystack(p), q)

\* Property value pv equals the selected value v up to letter case
EqualsIgnoringCase(pv, v) ==
    pv.t = "string" /\ ToLowerCase(pv.s) = ToLowerCase(v)

\* Property value pv equals the selected value v once both are trimmed and
\* lower-cased
EqualsTrimmedIgnoringCase(pv, v) ==
    Trim(ToLowerCase(IF pv.t = "string" THEN pv.s ELSE <<>>))
        = Trim(ToLowerCase(v))

\* C9 as stated: a feature is let through exactly when the text query lets
\* it through and its property equals, up to letter case, the value of each
\* selector that is set.
C9_SelectorsExact ==
    rendered # NoRender =>
      \A i \in DOMAIN allFeatures :
        LET p == PropsOf(allFeatures[i])
        IN  IsRendered(allFeatures[i]) <=>
              /\ QueryHolds(p)
              /\ (SelAId \in els /\ selA # <<>>)
                    => EqualsIgnoringCase(SelAField(p), selA)
              /\ (SelBId \in els /\ selB # <<>>)
                    => EqualsIgnoringCase(SelBField(p), selB)

\* C9: a feature is let through exactly when the text query lets it through
\* and, for each selector whose value is not blank, its property equals the
\* selected value once both are trimmed and lower-cased; so difficulty =
\* "Advanced" lets "advanced" through and keeps out "intermediate",
\* "advanced/expert" and a feature without difficulty.
C9_SelectorsExactAfterTrim ==
    rendered # NoRender =>
      /\ \A i \in DOMAIN allFeatures :
           LET p == PropsOf(allFeatures[i])
           IN  IsRendered(allFeatures[i]) <=>
                 /\ QueryHolds(p)
                 /\ norm(ElValue(SelAId, selA)) # <<>>
                       => EqualsTrimmedIgnoringCase(SelAField(p), selA)
                 /\ norm(ElValue(SelBId, selB)) # <<>>
                       => EqualsTrimmedIgnoringCase(SelBField(p), selB)
      /\ ( /\ variant = "leaflet" /\ SelAId \in els /\ selA = sAdvanced
           /\ norm(ElValue("q", qVal)) = <<>> /\ Unset(SelBId, selB) )
         => /\ 1 \in SeqRange(allFeatures) => IsRendered(1)
            /\ ~IsRendered(2) /\ ~IsRendered(3) /\ ~IsRendered(5)

\* C9 happens: of the three loaded tours (advanced, intermediate, none) the
\* difficulty selector on "Advanced" leaves the first one rendered.
C9_Witness ==
    /\ variant = "leaflet" /\ pc = "loaded"
    /\ allFeatures = <<1, 2, 3>>
    /\ selA = sAdvanced /\ Unset(SelBId, selB)
    /\ norm(ElValue("q", qVal)) = <<>>
    /\ rendered # NoRender
    /\ rendered.features = <<1>>

sGinpeakUpPage ==
    <<".","/","t","o","u","r","s","/","g","i","n","p","e","a","k","-","u","p",
      ".","h","t","m","l">>

\* One new browsing context on url, without opener
OpenedOnce(url) ==
    /\ Len(opens) = 1
    /\ opens[1].url = url
    /\ opens[1].target = "_blank"
    /\ "noopener" \in opens[1].features

\* C10: a click on a feature opens its page property when set, else
\* ./tours/{slug}.html when slug is set, else nothing; a resolved target is
\* opened exactly once, in a new browsing context without opener; the tour
\* with no page and slug "ginpeak-up" opens ./tours/ginpeak-up.html.
C10_OpenTourTarget ==
    clicked # NoFeature =>
      LET p == PropsOf(clicked.feature)
      IN  /\ Truthy(p.page) => OpenedOnce(p.page.s)
          /\ (~Truthy(p.page) /\ Truthy(p.slug))
                => OpenedOnce(<<".","/","t","o","u","r","s","/">> \o p.slug.s
                                  \o <<".","h","t","m","l">>)
          /\ (~Truthy(p.page) /\ ~Truthy(p.slug)) => opens = <<>>
          /\ clicked = ClickOn(3) => OpenedOnce(sGinpeakUpPage)

\* C10 happens: the card of the tour with no page, no title and slug
\* "ginpeak-up" is in the grid and has been clicked.
C10_Witness ==
    /\ variant = "leaflet"
    /\ clicked = ClickOn(3)
    /\ 3 \in SeqRange(grid)
    /\ Card(3).title = sGinpeakUp
    /\ OpenedOnce(sGinpeakUpPage)

\* The value the classification reads: direction, or direcrtion when
\* direction is missing
DirectionRead(p) ==
    IF ~IsNullish(p.direction) THEN p.direction.s
    ELSE IF ~IsNullish(p.direcrtion) THEN p.direcrtion.s
    ELSE <<>>

\* The colour class of that value, letter case ignored
ExpectedColour(p) ==
    LET d == ToLowerCase(DirectionRead(p))
    IN  CASE d \in {sUp, sAscent} -> ColorAscent
          [] d \in {sDown, sDescent} -> ColorDescent
          [] d \in {sTraverse, sCross} -> ColorTraverse
          [] OTHER -> ColorAscent

\* Both style expressions classify every input over DirectionValues so
DirectionTable ==
    \A p \in DirectionInputs :
        lineColor(p) = ExpectedColour(p) /\ circleColor(p) = ExpectedColour(p)

\* C11: the paint colour of a feature is the class of its direction
\* property, or of direcrtion when direction is missing, letter case
\* ignored: up/ascent the ascent colour, down/descent the descent colour,
\* traverse/cross the traverse colour, anything else the ascent colour; the
\* tour with direction "ASCENT" and the tour with only direcrtion set are
\* both classified ascent, by the style and by trackColorFromProps.
C11_DirectionColour ==
    /\ DirectionTable
    /\ \A i \in DOMAIN srcData :
          Painted(srcData[i]) # NotPainted =>
             Painted(srcData[i]).color = ExpectedColour(PropsOf(srcData[i]))
    /\ (1 \in SeqRange(srcData) /\ 2 \in SeqRange(srcData)) =>
          /\ Painted(1).color = ColorAscent
          /\ Painted(2).color = ColorAscent
          /\ trackColorFromProps(PropsOf(1)) = ColorAscent
          /\ trackColorFromProps(PropsOf(2)) = ColorAscent

\* C11 happens: the source holds the tour with direction "ASCENT", drawn as
\* a line, and the tour with only direcrtion set, drawn as a circle.
C11_Witness ==
    /\ variant = "mapbox" /\ pc = "loaded"
    /\ srcData = <<1, 2>>
    /\ Painted(1) = [t |-> "line", color |-> ColorAscent]
    /\ Painted(2) = [t |-> "circle", color |-> ColorAscent]
    /\ PropsOf(1).direction = S(sASCENT)
    /\ IsNullish(PropsOf(2).direction)

\* C12: a run of the pipeline whose filtered set is empty, because nothing
\* matches or because the store is still empty, raises no error and leaves
\* no card in the grid, no geometry on the map and, on the leaflet page with
\* its grid and count elements, a count label of zero.
C12_EmptyRender ==
    (runs = 1 /\ rendered # NoRender /\ rendered.features = <<>>) =>
        /\ ~raised
        /\ grid = <<>>
        /\ Displayed = <<>>
        /\ IF variant = "leaflet"
           THEN /\ mapLayers = SetToBag({GeoJSONLayer(<<>>)})
                /\ ("grid" \in els /\ "count" \in els)
                      => count = [kind |-> "shown", n |-> 0]
           ELSE srcData = <<>>

\* C12 happens: on the leaflet page a loaded, non-empty store has just been
\* filtered down to nothing.
C12_Witness ==
    /\ variant = "leaflet" /\ pc = "loaded"
    /\ allFeatures # <<>>
    /\ runs = 1
    /\ rendered = Render(<<>>)
    /\ count = [kind |-> "shown", n |-> 0]
    /\ grid = <<>>
    /\ ~raised

\* The positions found in coords
RECURSIVE PositionsIn(_)
PositionsIn(coords) ==
    IF coords.t # "array" THEN {}
    ELSE IF coords.k = "pos" THEN {coords}
    ELSE UNION {PositionsIn(coords.items[i]) : i \in DOMAIN coords.items}

\* The positions of the features that have a geometry with coordinates
PositionsOf(features) ==
    UNION {PositionsIn(Pool[features[i]].geometry.coordinates) :
             i \in {j \in DOMAIN features :
                      /\ Pool[features[j]].geometry.t = "object"
                      /\ Pool[features[j]].geometry.coordinates.t = "array"}}

\* The smallest box around a non-empty set of positions
BoxAround(ps) ==
    [t |-> "bounds", empty |-> FALSE,
     w |-> CHOOSE x \in {p.lng : p \in ps} : \A p \in ps : x <= p.lng,
     s |-> CHOOSE y \in {p.lat : p \in ps} : \A p \in ps : y <= p.lat,
     e |-> CHOOSE x \in {p.lng : p \in ps} : \A p \in ps : x >= p.lng,
     n |-> CHOOSE y \in {p.lat : p \in ps} : \A p \in ps : y >= p.lat]

\* The viewport after a fit over features, from the viewport before it
FittedTo(features, before) ==
    IF PositionsOf(features) = {} THEN before
    ELSE FitView(BoxAround(PositionsOf(features)))

\* C13: no fit raises an error, whether the one at the end of the load or a
\* click on the fit control in any state; features without geometry or
\* coordinates do not count towards the bounds, and with nothing to bound
\* the viewport stays as it was.
C13_FitNeverRaises ==
    [][ /\ FitClick =>
             /\ ~raised'
             /\ viewport' = FittedTo(Displayed, viewport)
        /\ (pc = "fetching" /\ pc' = "loaded") =>
             /\ ~raised'
             /\ viewport' = FittedTo(allFeatures', viewport)
      ]_vars

\* C13 happens: the viewport has been fitted around the positions of a
\* store that also holds the feature without geometry.
C13_Witness ==
    /\ pc = "loaded"
    /\ 3 \in SeqRange(allFeatures)
    /\ PositionsOf(allFeatures) # {}
    /\ viewport = FitView(BoxAround(PositionsOf(allFeatures)))
    /\ ~raised

\* C14: the store is populated once per page load: no second fetch is ever
\* started, the one fetch starts when the map has been initialised, a page
\* past that point has started exactly one, allFeatures is assigned by the
\* completion of that fetch and by nothing else, and no later step (filter
\* change, fit, hover, click, resize) assigns, extends or clears it.
C14_LoadedOnce ==
    [][ /\ fetches' <= 1
        /\ fetches' # fetches =>
              /\ fetches = 0 /\ fetches' = 1
              /\ mapReady'
              /\ pc' = "fetching"
        /\ pc' \in {"fetching", "loaded", "failed"} => fetches' = 1
        /\ allFeatures' # allFeatures =>
              /\ pc = "fetching" /\ pc' = "loaded"
              /\ allFeatures = <<>>
        /\ pc \in {"loaded", "failed"} =>
              /\ pc' = pc
              /\ allFeatures' = allFeatures
        /\ MapResize => allFeatures' = allFeatures
      ]_vars

\* C14 happens: after the one fetch has filled the store, a later handler
\* has run the filter and the store is still what the fetch left.
C14_Witness ==
    /\ pc = "loaded"
    /\ fetches = 1
    /\ Len(allFeatures) >= 2
    /\ mapReady
    /\ norm(S(qVal)) # <<>>
    /\ runs = 1

\* A step of a filter control: an input event on the search box, a change
\* event on a selector, a click on a preset chip
ControlEvent ==
    \/ \E v \in Queries : InputQ(v)
    \/ \E v \in SeqRange(optsA) : ChangeSelA(v)
    \/ \E v \in SeqRange(optsB) : ChangeSelB(v)
    \/ \E v \in Presets : TocChip(v)

ControlsChange == qVal' # qVal \/ selA' # selA \/ selB' # selB

\* C16: between handlers, whatever the order of control events and fetch
\* completion, the list the map draws from is the store filtered under the
\* current control values, and so are the cards on the leaflet page with its
\* grid and count elements and the list the last pipeline run produced; and
\* every step that changes a control value runs the pipeline in the same
\* handler.
C16_DisplayedIsFiltered ==
    /\ [](/\ Displayed = Filtered
          /\ (variant = "leaflet" /\ "grid" \in els /\ "count" \in els)
                => grid = Filtered
          /\ rendered # NoRender => rendered.features = Filtered)
    /\ [][ControlsChange => runs' = 1]_vars

\* C16 happens: the document has loaded while a selector and the search box
\* hold values, and the map shows a proper, non-empty part of the store.
C16_Witness ==
    /\ pc = "loaded"
    /\ runs = 1
    /\ norm(S(qVal)) # <<>>
    /\ selA # <<>>
    /\ Displayed = Filtered
    /\ Displayed # <<>>
    /\ Len(Displayed) < Len(allFeatures)

\* C17 as stated: for every feature in the map's source, whatever its
\* direction and direcrtion properties hold (nothing, the empty string, a
\* padded value, any letter case, a known or an unknown word),
\* trackColorFromProps returns the colour the line-color and circle-color
\* expressions of the style return.
C17_HelperMatchesStyle ==
    \A i \in DOMAIN srcData :
        /\ trackColorFromProps(PropsOf(srcData[i])) = lineColor(PropsOf(srcData[i]))
        /\ trackColorFromProps(PropsOf(srcData[i])) = circleColor(PropsOf(srcData[i]))

=============================================================================
